---- MODULE Spec2Model ----
(***************************************************************************)
(* Model of the ExpenseTracker tool server (main_3.py): the schema         *)
(* initializer init_db and the five record operations add_expense,         *)
(* list_expenses, summarize, delete_expense and edit_expense, each of      *)
(* which opens its own connection to one SQLite table.                     *)
(*                                                                         *)
(* Strings are sequences of code points, so that the store's comparisons   *)
(* (BETWEEN on date, ORDER BY category) are the lexicographic comparisons  *)
(* SQLite performs.  An optional argument is <<>> when it is None (not     *)
(* passed) and <<v>> when it carries the value v.                          *)
(***************************************************************************)
EXTENDS Integers, Sequences, FiniteSets, TLC

VARIABLES
    boot,      \* position of the startup call asyncio.run(init_db())
    schema,    \* the expenses table: "absent", "v1" (no paid_by), "v2"
    initErr,   \* the last exception a statement of init_db raised
    rows,      \* committed rows of the expenses table
    seq,       \* committed sqlite_sequence entry of the AUTOINCREMENT key
    lock,      \* the caller whose connection holds the write transaction
    txRows,    \* rows as written by the open write transaction
    txSeq,     \* sqlite_sequence as written by the open write transaction
    conns,     \* number of open connections
    proc,      \* per caller: position in its operation, arguments, cursor
    ret,       \* the response being handed to the dispatcher by this step
    issued,    \* history: every id add_expense has returned
    deleted    \* history: every id delete_expense has reported deleted

vars == <<boot, schema, initErr, rows, seq, lock, txRows, txSeq, conns,
          proc, ret, issued, deleted>>

storeVars == <<rows, seq, lock, txRows, txSeq>>
bootVars == <<boot, schema, initErr>>
histVars == <<issued, deleted>>

(***************************************************************************)
(* Bounds                                                                  *)
(***************************************************************************)
MaxAdds == 2

(***************************************************************************)
(* Values                                                                  *)
(***************************************************************************)
None == <<>>
Some(v) == <<v>>

EmptyStr == <<>>
Food == <<70, 111, 111, 100>>
Fuel == <<70, 117, 101, 108>>
Date1 == <<49>>
Date10 == <<49, 48>>
Date2 == <<50>>
Sub == <<115>>
Memo == <<110>>
Payer == <<109, 101>>

Procs == {"c1", "c2"}
NoProc == "none"

Dates == {Date1, Date10, Date2}
Ids == 1..MaxAdds

NoArgs ==
    [expense_id |-> 0, date |-> None, amount |-> None, category |-> None,
     subcategory |-> None, note |-> None, paid_by |-> None,
     start_date |-> None, end_date |-> None]

Idle == [pc |-> "idle", op |-> "none", args |-> NoArgs, cnt |-> 0]

NoError == [cls |-> "none", msg |-> "none"]
DuplicateColumn == [cls |-> "OperationalError", msg |-> "duplicate column name: paid_by"]
Locked == [cls |-> "OperationalError", msg |-> "database is locked"]
NoColumn == [cls |-> "OperationalError", msg |-> "no such column: paid_by"]
Malformed == [cls |-> "DatabaseError", msg |-> "database disk image is malformed"]
CantOpen == [cls |-> "OperationalError", msg |-> "unable to open database file"]

(***************************************************************************)
(* The store's pure parts                                                  *)
(***************************************************************************)

\* Memcmp order of two strings (SQLite's BINARY collation): a <= b.
RECURSIVE StrLeq(_, _)
StrLeq(a, b) ==
    IF a = <<>> THEN TRUE
    ELSE IF b = <<>> THEN FALSE
    ELSE IF a[1] < b[1] THEN TRUE
    ELSE IF a[1] > b[1] THEN FALSE
    ELSE StrLeq(Tail(a), Tail(b))

\* Variant: a half-open range, "date >= ? AND date < ?".
BetweenHalfOpen(d, lo, hi) == StrLeq(lo, d) /\ StrLeq(d, hi) /\ d # hi

\* date BETWEEN ? AND ?
Between(d, lo, hi) == StrLeq(lo, d) /\ StrLeq(d, hi)

RowIds(rs) == {r.id : r \in rs}

MaxRowid(rs) == IF rs = {} THEN 0 ELSE CHOOSE m \in RowIds(rs) : \A i \in RowIds(rs) : i <= m

\* Variant: id INTEGER PRIMARY KEY without AUTOINCREMENT, one more than the
\* largest rowid the table holds now.
NextRowidNoAutoincrement(rs, sq) == MaxRowid(rs) + 1

\* id INTEGER PRIMARY KEY AUTOINCREMENT: one more than the largest rowid the
\* table has ever held, which sqlite_sequence remembers.
NextRowid(rs, sq) == (IF sq > MaxRowid(rs) THEN sq ELSE MaxRowid(rs)) + 1

\* A parameter with a default value: subcategory="" and so on.
Default(o) == IF o = None THEN EmptyStr ELSE o[1]

\* INSERT INTO expenses(date, amount, category, subcategory, note, paid_by)
InsertRow(rs, sq, a) ==
    rs \cup {[id |-> NextRowid(rs, sq), date |-> a.date[1], amount |-> a.amount[1],
              category |-> a.category[1], subcategory |-> Default(a.subcategory),
              note |-> Default(a.note), paid_by |-> Default(a.paid_by)]}

\* ORDER BY id ASC
RECURSIVE OrderById(_)
OrderById(rs) ==
    IF rs = {} THEN <<>>
    ELSE LET first == CHOOSE r \in rs : \A q \in rs : r.id <= q.id
         IN <<first>> \o OrderById(rs \ {first})

\* SELECT ... FROM expenses WHERE date BETWEEN ? AND ? ORDER BY id ASC
ListExpenses(rs, lo, hi) == OrderById({r \in rs : Between(r.date, lo, hi)})

\* SUM(amount)
RECURSIVE SumAmount(_)
SumAmount(rs) ==
    IF rs = {} THEN 0
    ELSE LET r == CHOOSE q \in rs : TRUE IN r.amount + SumAmount(rs \ {r})

\* "if category:" - None and the empty string both leave the filter off.
FilterOn(category) == category # None /\ category[1] # EmptyStr

\* ORDER BY category ASC over the groups of GROUP BY category
RECURSIVE OrderByCategory(_, _)
OrderByCategory(cats, rs) ==
    IF cats = {} THEN <<>>
    ELSE LET c == CHOOSE x \in cats : \A y \in cats : StrLeq(x, y)
         IN <<[category |-> c,
               total_amount |-> SumAmount({r \in rs : r.category = c})]>>
            \o OrderByCategory(cats \ {c}, rs)

\* SELECT category, SUM(amount) ... WHERE date BETWEEN ? AND ? [AND category = ?]
\* GROUP BY category ORDER BY category ASC
Summarize(rs, lo, hi, category) ==
    LET inRange == {r \in rs : Between(r.date, lo, hi)}
        sel == IF FilterOn(category)
               THEN {r \in inRange : r.category = category[1]}
               ELSE inRange
    IN OrderByCategory({r.category : r \in sel}, sel)

\* Variant: the DELETE never reaches the table (a missing commit).
DeleteRowLost(rs, id) == rs

\* DELETE FROM expenses WHERE id = ?
DeleteRow(rs, id) == {r \in rs : r.id # id}

\* Variant: the count of the rows of the table instead of the rows matched.
RowCountOfTable(rs, id) == Cardinality(rs)

\* cur.rowcount of a DELETE or UPDATE ... WHERE id = ?
RowCount(rs, id) == Cardinality({r \in rs : r.id = id})

FieldNames == {"date", "amount", "category", "subcategory", "note", "paid_by"}

\* Variant: "if date:" and so on, which drops 0 and the empty string.
SetFieldsTruthy(a) ==
    {f \in FieldNames : a[f] # None /\ a[f][1] # (IF f = "amount" THEN 0 ELSE EmptyStr)}

\* Variant: the emptiness test made after params.append(expense_id).
SetFieldsAndId(a) == {f \in FieldNames : a[f] # None} \cup {"expense_id"}

\* "if date is not None: fields.append(...)" and its five siblings.
SetFields(a) == {f \in FieldNames : a[f] # None}

\* Variant: an upsert, which writes the row back when no row has the id.
UpdateRowUpsert(rs, id, a) ==
    LET val(f) == IF a[f] # None THEN a[f][1] ELSE IF f = "amount" THEN 0 ELSE EmptyStr
        new(r, f) == IF a[f] # None THEN a[f][1] ELSE r[f]
    IN IF \A r \in rs : r.id # id
       THEN rs \cup {[id |-> id, date |-> val("date"), amount |-> val("amount"),
                      category |-> val("category"), subcategory |-> val("subcategory"),
                      note |-> val("note"), paid_by |-> val("paid_by")]}
       ELSE {IF r.id = id
             THEN [id |-> r.id, date |-> new(r, "date"), amount |-> new(r, "amount"),
                   category |-> new(r, "category"),
                   subcategory |-> new(r, "subcategory"),
                   note |-> new(r, "note"), paid_by |-> new(r, "paid_by")]
             ELSE r : r \in rs}

\* UPDATE expenses SET <fields> WHERE id = ?
UpdateRow(rs, id, a) ==
    LET new(r, f) == IF f \in SetFields(a) THEN a[f][1] ELSE r[f]
    IN {IF r.id = id
        THEN [id |-> r.id, date |-> new(r, "date"), amount |-> new(r, "amount"),
              category |-> new(r, "category"), subcategory |-> new(r, "subcategory"),
              note |-> new(r, "note"), paid_by |-> new(r, "paid_by")]
        ELSE r : r \in rs}

\* "except aiosqlite.OperationalError: pass"
Swallowed(e) == e.cls = "OperationalError"

\* Variant: db.close() written on the success path only.
CloseConnOnSuccess(n, path) == IF path = "return" THEN n - 1 ELSE n

\* aiosqlite.connect(...).__aenter__ and __aexit__ of "async with"
OpenConn(n) == n + 1
CloseConn(n, path) == n - 1

(***************************************************************************)
(* Inputs of the calls                                                     *)
(***************************************************************************)
AddArgs(d, amt, c, sub, note, by) ==
    [NoArgs EXCEPT !.date = Some(d), !.amount = Some(amt), !.category = Some(c),
                   !.subcategory = sub, !.note = note, !.paid_by = by]

\* What the two concurrent callers of Spec send.
AddInputs ==
    {AddArgs(Date1, 1, Food, None, None, None),
     AddArgs(Date10, 2, Fuel, Some(Sub), Some(Memo), Some(Payer))}

RangeInputs == {<<Date1, Date2>>, <<Date10, Date10>>}

FilterInputs == {None, Some(Food)}

EditInputs ==
    {NoArgs,
     [NoArgs EXCEPT !.amount = Some(0), !.paid_by = Some(Payer)]}

\* What the single caller of SpecData sends.
DataAddInputs ==
    {AddArgs(Date1, 1, Food, None, None, None),
     AddArgs(Date10, 2, Fuel, Some(Sub), Some(Memo), Some(Payer))}

DataRangeInputs == {<<Date1, Date2>>, <<Date10, Date10>>, <<Date2, Date1>>}

DataFilterInputs == {None, Some(EmptyStr), Some(Food), Some(Fuel)}

DataEditInputs ==
    {NoArgs,
     [NoArgs EXCEPT !.amount = Some(0)],
     [NoArgs EXCEPT !.category = Some(EmptyStr)],
     [NoArgs EXCEPT !.date = Some(Date2), !.subcategory = Some(EmptyStr),
                    !.note = Some(Memo), !.paid_by = Some(Payer)]}

(***************************************************************************)
(* State after the module is loaded, before asyncio.run(init_db())         *)
(***************************************************************************)
NoRet == [proc |-> NoProc, op |-> "none", args |-> NoArgs, kind |-> "none", value |-> <<>>]

Init ==
    /\ boot = "start"
    /\ schema \in {"absent", "v1", "v2"}
    /\ initErr = NoError
    /\ rows = {}
    /\ seq = 0
    /\ lock = NoProc
    /\ txRows = {}
    /\ txSeq = 0
    /\ conns = 0
    /\ proc = [p \in Procs |-> Idle]
    /\ ret = NoRet
    /\ issued = {}
    /\ deleted = {}

(***************************************************************************)
(* init_db                                                                 *)
(***************************************************************************)
\* aiosqlite.connect(DB_PATH): when it raises, no connection was opened.
init_db_connect ==
    /\ boot = "start"
    /\ ret = NoRet
    /\ \E e \in {NoError, CantOpen} :
        /\ initErr' = e
        /\ IF e = NoError
           THEN boot' = "connected" /\ conns' = OpenConn(conns)
           ELSE boot' = "aborted" /\ conns' = conns
    /\ ret' = NoRet
    /\ UNCHANGED <<schema, storeVars, proc, histVars>>

\* CREATE TABLE IF NOT EXISTS expenses(...): an error leaves "async with".
init_db_create ==
    /\ boot = "connected"
    /\ ret = NoRet
    /\ \E e \in {NoError, Locked, Malformed} :
        /\ initErr' = e
        /\ IF e = NoError
           THEN /\ boot' = "created"
                /\ schema' = IF schema = "absent" THEN "v2" ELSE schema
                /\ conns' = conns
           ELSE /\ boot' = "aborted"
                /\ schema' = schema
                /\ conns' = CloseConn(conns, "raise")
    /\ ret' = NoRet
    /\ UNCHANGED <<storeVars, proc, histVars>>

\* What ALTER TABLE expenses ADD COLUMN paid_by can do on a table.
AlterOutcomes(sch) ==
    (IF sch = "v2" THEN {DuplicateColumn} ELSE {NoError}) \cup {Locked, Malformed}

\* try: ALTER TABLE ... except aiosqlite.OperationalError: pass
init_db_alter ==
    /\ boot = "created"
    /\ ret = NoRet
    /\ \E e \in AlterOutcomes(schema) :
        /\ initErr' = e
        /\ IF e = NoError
           THEN boot' = "altered" /\ schema' = "v2" /\ conns' = conns
           ELSE IF Swallowed(e)
           THEN boot' = "altered" /\ schema' = schema /\ conns' = conns
           ELSE boot' = "aborted" /\ schema' = schema /\ conns' = CloseConn(conns, "raise")
    /\ ret' = NoRet
    /\ UNCHANGED <<storeVars, proc, histVars>>

\* await db.commit(), then the end of "async with"; the server starts.
init_db_commit ==
    /\ boot = "altered"
    /\ ret = NoRet
    /\ boot' = "running"
    /\ conns' = CloseConn(conns, "return")
    /\ ret' = NoRet
    /\ UNCHANGED <<schema, initErr, storeVars, proc, histVars>>

(***************************************************************************)
(* Steps shared by the operations                                          *)
(***************************************************************************)
\* The dispatcher routes a call to caller p, which enters "async with connect".
Begin(p, op, a) ==
    /\ boot = "running"
    /\ ret = NoRet
    /\ proc[p].pc = "idle"
    /\ proc' = [proc EXCEPT ![p] = [pc |-> "conn", op |-> op, args |-> a, cnt |-> 0]]
    /\ conns' = OpenConn(conns)
    /\ ret' = NoRet
    /\ UNCHANGED <<bootVars, storeVars, histVars>>

At(p, pc, op) == proc[p].pc = pc /\ proc[p].op = op

\* The statement of a writer starts the connection's transaction.
Write(p, newRows, newSeq, cnt) ==
    /\ ret = NoRet
    /\ lock = NoProc
    /\ lock' = p
    /\ txRows' = newRows
    /\ txSeq' = newSeq
    /\ proc' = [proc EXCEPT ![p].pc = "tx", ![p].cnt = cnt]
    /\ ret' = NoRet
    /\ UNCHANGED <<bootVars, rows, seq, conns, histVars>>

\* await db.commit()
Commit(p) ==
    /\ ret = NoRet
    /\ lock = p
    /\ rows' = txRows
    /\ seq' = txSeq
    /\ lock' = NoProc
    /\ txRows' = {}
    /\ txSeq' = 0

Response(p, op, a, kind, value) ==
    [proc |-> p, op |-> op, args |-> a, kind |-> kind, value |-> value]

\* return value; the connection is closed on the way out of "async with".
Return(p, value, path) ==
    /\ ret' = Response(p, proc[p].op, proc[p].args, "return", value)
    /\ proc' = [proc EXCEPT ![p] = Idle]
    /\ conns' = CloseConn(conns, path)

\* A whole reading operation: connect, one SELECT, fetchall, close.  The
\* SELECT raises when it names a column the table lacks or the store fails.
Read(p, op, a, needsPaidBy, value) ==
    /\ boot = "running"
    /\ ret = NoRet
    /\ proc[p].pc = "idle"
    /\ \E e \in {NoError, Locked} :
        ret' = IF needsPaidBy /\ schema # "v2"
               THEN Response(p, op, a, "raise", NoColumn)
               ELSE IF e # NoError
               THEN Response(p, op, a, "raise", e)
               ELSE Response(p, op, a, "return", value)
    /\ conns' = CloseConn(OpenConn(conns), IF ret'.kind = "raise" THEN "raise" ELSE "return")
    /\ UNCHANGED <<bootVars, storeVars, proc, histVars>>

(***************************************************************************)
(* add_expense                                                             *)
(***************************************************************************)
add_expense_call(p, inputs) ==
    /\ NextRowid(rows, seq) <= MaxAdds
    /\ \E a \in inputs : Begin(p, "add_expense", a)

add_expense_execute(p) ==
    /\ At(p, "conn", "add_expense")
    /\ schema = "v2"
    /\ NextRowid(rows, seq) <= MaxAdds
    /\ Write(p, InsertRow(rows, seq, proc[p].args), NextRowid(rows, seq),
             NextRowid(rows, seq))

add_expense_commit(p) ==
    /\ At(p, "tx", "add_expense")
    /\ Commit(p)
    /\ Return(p, [status |-> "ok", id |-> proc[p].cnt], "return")
    /\ issued' = issued \cup {proc[p].cnt}
    /\ UNCHANGED <<bootVars, deleted>>

(***************************************************************************)
(* list_expenses                                                           *)
(***************************************************************************)
list_expenses(p, ranges) ==
    \E r \in ranges :
        Read(p, "list_expenses",
             [NoArgs EXCEPT !.start_date = Some(r[1]), !.end_date = Some(r[2])],
             TRUE, ListExpenses(rows, r[1], r[2]))

(***************************************************************************)
(* summarize                                                               *)
(***************************************************************************)
summarize(p, ranges, filters) ==
    \E r \in ranges, c \in filters :
        Read(p, "summarize",
             [NoArgs EXCEPT !.start_date = Some(r[1]), !.end_date = Some(r[2]),
                            !.category = c],
             FALSE, Summarize(rows, r[1], r[2], c))

(***************************************************************************)
(* delete_expense                                                          *)
(***************************************************************************)
NotFound == [status |-> "error", message |-> "Expense not found"]

delete_expense_call(p) ==
    \E i \in Ids : Begin(p, "delete_expense", [NoArgs EXCEPT !.expense_id = i])

delete_expense_execute(p) ==
    /\ At(p, "conn", "delete_expense")
    /\ Write(p, DeleteRow(rows, proc[p].args.expense_id), seq,
             RowCount(rows, proc[p].args.expense_id))

delete_expense_commit(p) ==
    /\ At(p, "tx", "delete_expense")
    /\ Commit(p)
    /\ IF proc[p].cnt = 0
       THEN /\ Return(p, NotFound, "notfound")
            /\ deleted' = deleted
       ELSE /\ Return(p, [status |-> "ok", deleted_id |-> proc[p].args.expense_id],
                      "return")
            /\ deleted' = deleted \cup {proc[p].args.expense_id}
    /\ UNCHANGED <<bootVars, issued>>

(***************************************************************************)
(* edit_expense                                                            *)
(***************************************************************************)
NoFields == [status |-> "error", message |-> "No fields to update"]

\* "if not fields: return ..." comes before the connection is opened.
edit_expense_call(p, patches) ==
    \E i \in Ids, e \in patches :
        LET a == [e EXCEPT !.expense_id = i]
        IN IF SetFields(a) = {}
           THEN /\ boot = "running"
                /\ ret = NoRet
                /\ proc[p].pc = "idle"
                /\ ret' = Response(p, "edit_expense", a, "return", NoFields)
                /\ UNCHANGED <<bootVars, storeVars, conns, proc, histVars>>
           ELSE Begin(p, "edit_expense", a)

edit_expense_execute(p) ==
    /\ At(p, "conn", "edit_expense")
    /\ "paid_by" \in SetFields(proc[p].args) => schema = "v2"
    /\ Write(p, UpdateRow(rows, proc[p].args.expense_id, proc[p].args), seq,
             RowCount(rows, proc[p].args.expense_id))

edit_expense_commit(p) ==
    /\ At(p, "tx", "edit_expense")
    /\ Commit(p)
    /\ IF proc[p].cnt = 0
       THEN Return(p, NotFound, "notfound")
       ELSE Return(p, [status |-> "ok", updated_id |-> proc[p].args.expense_id],
                   "return")
    /\ UNCHANGED <<bootVars, histVars>>

(***************************************************************************)
(* Store failures of a writer: the statement or the commit raises, the     *)
(* exception leaves "async with" (which closes the connection, rolling     *)
(* back what it had not committed) and reaches the dispatcher.             *)
(***************************************************************************)
UsesPaidBy(p) ==
    \/ proc[p].op = "add_expense"
    \/ proc[p].op = "edit_expense" /\ "paid_by" \in SetFields(proc[p].args)

StoreErrors(p) ==
    {Locked} \cup (IF proc[p].pc = "conn" /\ schema # "v2" /\ UsesPaidBy(p)
                   THEN {NoColumn} ELSE {})

store_error(p) ==
    /\ ret = NoRet
    /\ proc[p].pc \in {"conn", "tx"}
    /\ \E e \in StoreErrors(p) :
        ret' = Response(p, proc[p].op, proc[p].args, "raise", e)
    /\ proc' = [proc EXCEPT ![p] = Idle]
    /\ conns' = CloseConn(conns, "raise")
    /\ IF lock = p
       THEN lock' = NoProc /\ txRows' = {} /\ txSeq' = 0
       ELSE UNCHANGED <<lock, txRows, txSeq>>
    /\ UNCHANGED <<bootVars, rows, seq, histVars>>

(***************************************************************************)
(* The dispatcher serializes the response of the finished call and sends   *)
(* it; the operations hand it one response at a time.                      *)
(***************************************************************************)
dispatcher_relay ==
    /\ ret # NoRet
    /\ ret' = NoRet
    /\ UNCHANGED <<bootVars, storeVars, conns, proc, histVars>>

(***************************************************************************)
(* The system: startup, then two callers served concurrently               *)
(***************************************************************************)
Next ==
    \/ init_db_connect
    \/ init_db_create
    \/ init_db_alter
    \/ init_db_commit
    \/ \E p \in Procs : add_expense_call(p, AddInputs)
    \/ \E p \in Procs : add_expense_execute(p)
    \/ \E p \in Procs : add_expense_commit(p)
    \/ \E p \in Procs : list_expenses(p, RangeInputs)
    \/ \E p \in Procs : summarize(p, RangeInputs, FilterInputs)
    \/ \E p \in Procs : delete_expense_call(p)
    \/ \E p \in Procs : delete_expense_execute(p)
    \/ \E p \in Procs : delete_expense_commit(p)
    \/ \E p \in Procs : edit_expense_call(p, EditInputs)
    \/ \E p \in Procs : edit_expense_execute(p)
    \/ \E p \in Procs : edit_expense_commit(p)
    \/ \E p \in Procs : store_error(p)
    \/ dispatcher_relay

Spec == Init /\ [][Next]_vars

(***************************************************************************)
(* The record operations on their own: the server after a successful       *)
(* init_db, one caller at a time, a wider choice of arguments              *)
(***************************************************************************)
DataCaller == "c1"

InitData ==
    /\ boot = "running"
    /\ schema = "v2"
    /\ initErr \in {NoError, DuplicateColumn}
    /\ rows = {}
    /\ seq = 0
    /\ lock = NoProc
    /\ txRows = {}
    /\ txSeq = 0
    /\ conns = 0
    /\ proc = [p \in Procs |-> Idle]
    /\ ret = NoRet
    /\ issued = {}
    /\ deleted = {}

NextData ==
    \/ add_expense_call(DataCaller, DataAddInputs)
    \/ add_expense_execute(DataCaller)
    \/ add_expense_commit(DataCaller)
    \/ list_expenses(DataCaller, DataRangeInputs)
    \/ summarize(DataCaller, DataRangeInputs, DataFilterInputs)
    \/ delete_expense_call(DataCaller)
    \/ delete_expense_execute(DataCaller)
    \/ delete_expense_commit(DataCaller)
    \/ edit_expense_call(DataCaller, DataEditInputs)
    \/ edit_expense_execute(DataCaller)
    \/ edit_expense_commit(DataCaller)
    \/ store_error(DataCaller)
    \/ dispatcher_relay

SpecData == InitData /\ [][NextData]_vars

(***************************************************************************)
(* One delete_expense and one edit_expense of the same existing record,    *)
(* both past aiosqlite.connect when the race starts                        *)
(***************************************************************************)
Deleter == "c1"
Editor == "c2"

\* The stores two add_expense calls leave behind.
RaceStores ==
    {InsertRow(InsertRow({}, 0, a), 1, b) : a \in DataAddInputs, b \in DataAddInputs}

InitRace ==
    /\ boot = "running"
    /\ schema = "v2"
    /\ initErr = NoError
    /\ rows \in RaceStores
    /\ seq = 2
    /\ lock = NoProc
    /\ txRows = {}
    /\ txSeq = 0
    /\ conns = 2
    /\ \E i \in RowIds(rows), e \in DataEditInputs \ {NoArgs} :
        proc = [p \in Procs |->
                  IF p = Deleter
                  THEN [pc |-> "conn", op |-> "delete_expense",
                        args |-> [NoArgs EXCEPT !.expense_id = i], cnt |-> 0]
                  ELSE [pc |-> "conn", op |-> "edit_expense",
                        args |-> [e EXCEPT !.expense_id = i], cnt |-> 0]]
    /\ ret = NoRet
    /\ issued = {1, 2}
    /\ deleted = {}

NextRace ==
    \/ delete_expense_execute(Deleter)
    \/ delete_expense_commit(Deleter)
    \/ edit_expense_execute(Editor)
    \/ edit_expense_commit(Editor)
    \/ \E p \in Procs : store_error(p)
    \/ dispatcher_relay

SpecRace == InitRace /\ [][NextRace]_vars

(***************************************************************************)
(* Properties                                                              *)
(***************************************************************************)
Returned(op) == ret.op = op /\ ret.kind = "return"

AllIdle == \A p \in Procs : proc[p].pc = "idle"

QueryDates == Dates \cup {EmptyStr}

\* C1: an edit_expense of an existing record writes exactly the supplied
\* fields (0 and the empty string included) and leaves the record's other
\* fields, its id and every other record as they were; only a call with no
\* field at all is answered "No fields to update".
C1_EditWritesExactlySuppliedFields ==
    [][\A p \in Procs :
        /\ (edit_expense_commit(p) /\ proc[p].args.expense_id \in RowIds(rows)) =>
              LET a == proc[p].args
                  i == a.expense_id
              IN /\ ret'.kind = "return"
                 /\ ret'.value = [status |-> "ok", updated_id |-> i]
                 /\ RowIds(rows') = RowIds(rows)
                 /\ Cardinality(rows') = Cardinality(rows)
                 /\ \A r \in rows : r.id # i => r \in rows'
                 /\ \A r \in rows, n \in rows' :
                       (r.id = i /\ n.id = i) =>
                          \A f \in FieldNames :
                             n[f] = IF a[f] = None THEN r[f] ELSE a[f][1]
        /\ (edit_expense_call(p, DataEditInputs) /\ ret'.kind = "return") =>
              \A f \in FieldNames : ret'.args[f] = None
      ]_vars

\* C1 witness: amount=0 has been written to one of two stored records.
C1_Witness ==
    /\ Returned("edit_expense")
    /\ ret.value.status = "ok"
    /\ ret.args.amount = Some(0)
    /\ ret.args.category = None
    /\ Cardinality(rows) = 2
    /\ \E r \in rows : r.id = ret.args.expense_id /\ r.amount = 0 /\ r.category = Fuel

\* C2: summarize returns, for every range and every category filter, one
\* entry per category with a listed record that matches the filter, its
\* total the sum of those records' amounts, in ascending category order.
C2_SummarizeMatchesList ==
    Returned("summarize") =>
        LET c == ret.args.category
            listed == ListExpenses(rows, ret.args.start_date[1], ret.args.end_date[1])
            match == {r \in {listed[k] : k \in DOMAIN listed} :
                         c = None \/ r.category = c[1]}
            out == ret.value
        IN /\ \A k \in DOMAIN out :
                 /\ \E r \in match : r.category = out[k].category
                 /\ out[k].total_amount =
                       SumAmount({r \in match : r.category = out[k].category})
           /\ \A r \in match :
                 Cardinality({k \in DOMAIN out : out[k].category = r.category}) = 1
           /\ \A j \in DOMAIN out, k \in DOMAIN out :
                 j < k => (StrLeq(out[j].category, out[k].category)
                           /\ out[j].category # out[k].category)

\* C3: add_expense never returns an id it has returned before, and no
\* edit_expense changes the set of stored ids.
C3_IdsNeverReusedOrMutated ==
    [][\A p \in Procs :
        /\ add_expense_commit(p) =>
              (ret'.value.id \notin issued /\ ret'.value.id \notin RowIds(rows))
        /\ edit_expense_commit(p) =>
              (RowIds(rows') = RowIds(rows) /\ Cardinality(rows') = Cardinality(rows))
      ]_vars

\* C3 witness: id 1 was deleted while it was the only id, and the next
\* add_expense returned 2.
C3_Witness ==
    /\ Returned("add_expense")
    /\ ret.value.id = 2
    /\ deleted = {1}
    /\ RowIds(rows) = {2}

\* C4: edit_expense with no field supplied answers "No fields to update"
\* for every id and changes neither the store nor the connections.
C4_NoFieldsNeverTouchesStore ==
    [][\A p \in Procs :
        edit_expense_call(p, {NoArgs}) =>
            /\ ret'.kind = "return"
            /\ ret'.value = NoFields
            /\ UNCHANGED <<rows, seq, lock, txRows, txSeq, conns, proc>>
      ]_vars

\* C4 witness: the answer was given for the id of a stored record.
C4_Witness ==
    /\ Returned("edit_expense")
    /\ ret.value = NoFields
    /\ ret.args.expense_id \in RowIds(rows)

\* C5: delete_expense of a stored id returns ok and removes that record
\* only; delete_expense of an id already deleted returns "Expense not
\* found" and leaves the store as it was.
C5_DeleteOnceThenNotFound ==
    [][\A p \in Procs :
        delete_expense_commit(p) =>
            LET i == proc[p].args.expense_id
            IN /\ ret'.kind = "return"
               /\ i \in RowIds(rows) =>
                     /\ ret'.value = [status |-> "ok", deleted_id |-> i]
                     /\ rows' = {r \in rows : r.id # i}
                     /\ Cardinality(rows') = Cardinality(rows) - 1
               /\ i \in deleted => (ret'.value = NotFound /\ rows' = rows)
      ]_vars

\* C5 witness: a second delete_expense of a deleted id, other records stored.
C5_Witness ==
    /\ Returned("delete_expense")
    /\ ret.value = NotFound
    /\ ret.args.expense_id \in deleted
    /\ rows # {}

\* C6: edit_expense with a supplied field returns ok exactly when the id is
\* stored, and "Expense not found" for an id never assigned or deleted,
\* in which case the store is unchanged.
C6_EditOkIffStored ==
    [][\A p \in Procs :
        edit_expense_commit(p) =>
            LET i == proc[p].args.expense_id
            IN /\ ret'.kind = "return"
               /\ (ret'.value = [status |-> "ok", updated_id |-> i]) <=> (i \in RowIds(rows))
               /\ i \notin RowIds(rows) => (ret'.value = NotFound /\ rows' = rows)
               /\ (i \notin issued \/ i \in deleted) => ret'.value = NotFound
      ]_vars

\* C6 witness: "Expense not found" for a deleted id.
C6_Witness ==
    /\ Returned("edit_expense")
    /\ ret.value = NotFound
    /\ ret.args.expense_id \in deleted
    /\ ret.args.amount = Some(0)

\* C7: when add_expense returns id i, i is an id no record had before, and
\* every list_expenses whose range contains the date returns exactly one
\* record with id i, carrying the supplied values ("" for omitted ones);
\* it is the whole result when no other stored record is in the range.
C7_AddThenListReturnsTheRecord ==
    [][\A p \in Procs :
        add_expense_commit(p) =>
            LET a == proc[p].args
                i == ret'.value.id
                opt(o) == IF o = None THEN EmptyStr ELSE o[1]
                rec == [id |-> i, date |-> a.date[1], amount |-> a.amount[1],
                        category |-> a.category[1], subcategory |-> opt(a.subcategory),
                        note |-> opt(a.note), paid_by |-> opt(a.paid_by)]
            IN /\ ret'.kind = "return"
               /\ ret'.value.status = "ok"
               /\ i \notin RowIds(rows)
               /\ i \notin issued
               /\ \A lo \in QueryDates, hi \in QueryDates :
                     (StrLeq(lo, a.date[1]) /\ StrLeq(a.date[1], hi)) =>
                        LET out == ListExpenses(rows', lo, hi)
                        IN /\ Cardinality({k \in DOMAIN out : out[k].id = i}) = 1
                           /\ \A k \in DOMAIN out : out[k].id = i => out[k] = rec
                           /\ (\A r \in rows :
                                  ~(StrLeq(lo, r.date) /\ StrLeq(r.date, hi)))
                                 => out = <<rec>>
      ]_vars

\* C7 witness: the second record, added with its optional fields omitted,
\* is listed next to the first.
C7_Witness ==
    /\ Returned("add_expense")
    /\ ret.value.id = 2
    /\ ret.args.subcategory = None
    /\ Len(ListExpenses(rows, Date1, Date2)) = 2

\* C8: init_db goes on only after no error or the "duplicate column" error
\* of ALTER TABLE; any other database error aborts startup.
C8_OnlyDuplicateColumnSwallowed ==
    initErr \notin {NoError, DuplicateColumn} => boot = "aborted"

\* C9: the open connections are exactly those of the operations in flight,
\* one each, so none is open when no operation is in flight.
C9_ConnectionsScoped ==
    /\ conns = Cardinality({p \in Procs : proc[p].pc # "idle"})
                 + (IF boot \in {"connected", "created", "altered"} THEN 1 ELSE 0)
    /\ (AllIdle /\ boot \in {"start", "running", "aborted"}) => conns = 0

\* C9 witness: an early "Expense not found" return with nothing left open.
C9_Witness ==
    /\ Returned("delete_expense")
    /\ ret.value = NotFound
    /\ AllIdle
    /\ conns = 0

\* C10: in a race of delete_expense(i) and edit_expense(i, fields) on a
\* stored record i, a delete that returns has returned ok and removed i for
\* good, the edit returns ok when its UPDATE ran before the DELETE and
\* "Expense not found" otherwise, and no other record changes.
C10_DeleteEditRace ==
    /\ [](\A i \in deleted : i \notin RowIds(rows))
    /\ [][/\ delete_expense_commit(Deleter) =>
               /\ ret'.kind = "return"
               /\ ret'.value = [status |-> "ok",
                                deleted_id |-> proc[Deleter].args.expense_id]
               /\ proc[Deleter].args.expense_id \notin RowIds(rows')
          /\ edit_expense_commit(Editor) =>
               /\ ret'.kind = "return"
               /\ IF proc[Editor].args.expense_id \in deleted
                  THEN ret'.value = NotFound
                  ELSE ret'.value = [status |-> "ok",
                                     updated_id |-> proc[Editor].args.expense_id]
          /\ \A p \in Procs : \A r \in rows :
               (proc[p].pc # "idle" /\ r.id # proc[p].args.expense_id) => r \in rows'
         ]_vars

\* C10 witness: both calls are back, the record is gone, the edit lost.
C10_Witness ==
    /\ AllIdle
    /\ Returned("edit_expense")
    /\ ret.value = NotFound
    /\ deleted # {}
    /\ Cardinality(rows) = 1

====
